---- MODULE Spec2Model ----
(***************************************************************************)
(* Concurrency Arena: the tick-based simulation of four concurrency        *)
(* models (process, thread, coroutine/event loop, goroutine/work stealing) *)
(* of useSimulation.ts.  One variable per React state cell of the hook,    *)
(* one action per callback of the hook, one operator per update function.  *)
(***************************************************************************)
EXTENDS Integers, Sequences, FiniteSets, TLC

\* ---------------------------------------------------------------- constants
TICK_INTERVAL == 100
IO_PROGRESS_SPEED == 20
CPU_PROGRESS_SPEED == 2
IO_WAIT_TICKS == 10
NUM_WORKERS == 4

\* spawnIOTasks(count = 20), and the Spawn button's spawnIOTasks(20)
SPAWN_COUNT == 20

\* the literals of the update functions
IO_HANDOFF_PROGRESS == 30
MAX_PROGRESS == 100
PROCESS_MEMORY_STEP == 10
THREAD_MEMORY_STEP == 3
MAX_MEMORY == 100
CONTENTION_MIN_ACTIVE == 2
STEAL_THRESHOLD == 2

\* ------------------------------------------------------------------- bounds
\* A run is given a workload budget when the lanes are constructed: how many
\* task objects may be created before the next reset, how many of them CPU
\* tasks, how many contention rolls may succeed, how often the simulation
\* may be paused, whether two creating calls may read the same clock value,
\* how many IO tasks one spawnIOTasks call may ask for.
\* Six families of runs of the hook are explored, and one of the App.
\* (1) a workload queued up front, then left to run
BurstTasks == 6
BurstCPU == 1
\* (2) a workload of IO tasks under lock contention in the thread lane
ContendedTasks == 3
ContendedBlocks == 2
\* (3) a workload extended while the simulation is paused, one poison
\* (CPU) task in it at most
PausedTasks == 2
Pauses == 1
\* (4) creating calls that may fall within the same millisecond
SameClockTasks == 2
\* (5) a workload of small batches, which the round-robin distribution
\* piles up on the first private queues of the work-stealing lane
UnevenTasks == 8
UnevenBatch == 2
\* (6) a workload larger than the workers can take at once, so that tasks
\* wait in the shared queue while one contention roll succeeds
BacklogTasks == 6
\* (7) the controls of App: batches of SPAWN_COUNT IO tasks and poison tasks
AppSpawns == 2
AppCPU == 1

Budgets ==
  {[tasks |-> BurstTasks, cpu |-> BurstCPU, blocks |-> 0, pauses |-> 0,
    sameClock |-> FALSE, batch |-> BurstTasks],
   [tasks |-> ContendedTasks, cpu |-> 0, blocks |-> ContendedBlocks, pauses |-> 0,
    sameClock |-> FALSE, batch |-> ContendedTasks],
   [tasks |-> PausedTasks, cpu |-> 1, blocks |-> 0, pauses |-> Pauses,
    sameClock |-> FALSE, batch |-> PausedTasks],
   [tasks |-> SameClockTasks, cpu |-> SameClockTasks, blocks |-> 0, pauses |-> 0,
    sameClock |-> TRUE, batch |-> SameClockTasks],
   [tasks |-> UnevenTasks, cpu |-> 0, blocks |-> 0, pauses |-> 0,
    sameClock |-> FALSE, batch |-> UnevenBatch],
   [tasks |-> BacklogTasks, cpu |-> 0, blocks |-> 1, pauses |-> 0,
    sameClock |-> FALSE, batch |-> BacklogTasks]}

VARIABLES isRunning, processLane, threadLane, coroutineLane, goroutineLane,
          heap, now, op, prev, chosen, budget, blocks, pauses

vars == <<isRunning, processLane, threadLane, coroutineLane, goroutineLane,
          heap, now, op, prev, chosen, budget, blocks, pauses>>

\* ---------------------------------------------------------------- data model
\* ioWaitTime?: number  -- the absent field
Undefined == -1

\* currentTask: null
Null == [obj |-> 0, id |-> <<"null">>, type |-> "NONE", progress |-> 0,
         status |-> "NONE", ioWaitTime |-> Undefined]

\* worker indices, as in Array.from({ length: workerCount }, (_, i) => ...)
WorkerIds(workerCount) == 0 .. (workerCount - 1)

\* the value a worker slot sees when it holds the task object o of the heap
TaskOf(o) == [obj |-> o, id |-> heap[o].id, type |-> heap[o].type,
              progress |-> heap[o].progress, status |-> heap[o].status,
              ioWaitTime |-> Undefined]

createInitialLane(workerCount, withLocalQueues) ==
  [workers |-> [i \in WorkerIds(workerCount) |->
                  [id |-> i, currentTask |-> Null, isBlocked |-> FALSE]],
   globalQueue |-> <<>>,
   localQueues |-> IF withLocalQueues
                     THEN [i \in WorkerIds(workerCount) |-> <<>>]
                     ELSE <<>>,
   waitingIO |-> <<>>,
   memoryUsage |-> 0,
   completedTasks |-> 0]

\* mutant: the gauge is not clamped
Min_NoClamp(a, b) == a

Min(a, b) == IF a < b THEN a ELSE b

\* ------------------------------------------------------ Lane 1: Process
\* mutant: the progress bar restarts when the blocking wait begins
ProcessAdvance_RestartsOnWait(task) ==
  IF task.type = "IO"
    THEN IF task.progress < IO_HANDOFF_PROGRESS
           THEN [task EXCEPT !.progress = @ + IO_PROGRESS_SPEED]
         ELSE IF task.ioWaitTime = Undefined
           THEN [task EXCEPT !.status = "WAITING_IO", !.ioWaitTime = IO_WAIT_TICKS,
                             !.progress = 0]
         ELSE IF task.ioWaitTime > 0
           THEN [task EXCEPT !.ioWaitTime = @ - 1]
         ELSE [task EXCEPT !.progress = MAX_PROGRESS, !.status = "DONE"]
    ELSE IF task.progress + CPU_PROGRESS_SPEED >= MAX_PROGRESS
           THEN [task EXCEPT !.progress = MAX_PROGRESS, !.status = "DONE"]
           ELSE [task EXCEPT !.progress = @ + CPU_PROGRESS_SPEED]

\* one worker's task advanced by one tick (blocking IO)
ProcessAdvance(task) ==
  IF task.type = "IO"
    THEN IF task.progress < IO_HANDOFF_PROGRESS
           THEN [task EXCEPT !.progress = @ + IO_PROGRESS_SPEED]
         ELSE IF task.ioWaitTime = Undefined
           THEN [task EXCEPT !.status = "WAITING_IO", !.ioWaitTime = IO_WAIT_TICKS]
         ELSE IF task.ioWaitTime > 0
           THEN [task EXCEPT !.ioWaitTime = @ - 1]
         ELSE [task EXCEPT !.progress = MAX_PROGRESS, !.status = "DONE"]
    ELSE IF task.progress + CPU_PROGRESS_SPEED >= MAX_PROGRESS
           THEN [task EXCEPT !.progress = MAX_PROGRESS, !.status = "DONE"]
           ELSE [task EXCEPT !.progress = @ + CPU_PROGRESS_SPEED]

\* the body of workers.forEach for worker i; acc carries the locals
\* workers, globalQueue, completedTasks, memoryUsage and the set of heap
\* objects whose status the loop has set to RUNNING
ProcessWorker(acc, i) ==
  LET cur    == acc.workers[i].currentTask
      task   == IF cur # Null THEN ProcessAdvance(cur) ELSE Null
      done   == cur # Null /\ task.status = "DONE"
      after  == IF done THEN Null ELSE task
      assign == after = Null /\ Len(acc.globalQueue) > 0
      o      == Head(acc.globalQueue)
  IN  [acc EXCEPT
         !.workers[i].currentTask =
             IF assign THEN [TaskOf(o) EXCEPT !.status = "RUNNING"] ELSE after,
         !.globalQueue = IF assign THEN Tail(@) ELSE @,
         !.completedTasks = IF done THEN @ + 1 ELSE @,
         !.memoryUsage = IF assign THEN @ + PROCESS_MEMORY_STEP ELSE @,
         !.started = IF assign THEN @ \cup {o} ELSE @]

RECURSIVE ProcessWorkers(_, _)
ProcessWorkers(acc, i) ==
  IF i >= NUM_WORKERS THEN acc
  ELSE ProcessWorkers(ProcessWorker(acc, i), i + 1)

\* the lane returned, and the heap objects marked RUNNING on the way
updateProcessLane(lane) ==
  LET acc == ProcessWorkers([workers |-> lane.workers,
                             globalQueue |-> lane.globalQueue,
                             completedTasks |-> lane.completedTasks,
                             memoryUsage |-> lane.memoryUsage,
                             started |-> {}], 0)
  IN  [lane |-> [lane EXCEPT !.workers = acc.workers,
                             !.globalQueue = acc.globalQueue,
                             !.completedTasks = acc.completedTasks,
                             !.memoryUsage = Min(acc.memoryUsage, MAX_MEMORY)],
       started |-> acc.started]

\* ------------------------------------------------------- Lane 2: Thread
\* the contention roll: roll is Math.random() < 0.3, pick is
\* Math.floor(Math.random() * workers.length)
\* mutant: the else branch that clears the flags is missing
ThreadContention_NoClear(workers, roll, pick) ==
  IF Cardinality({i \in DOMAIN workers : workers[i].currentTask # Null})
        > CONTENTION_MIN_ACTIVE /\ roll
    THEN [workers EXCEPT ![pick].isBlocked = TRUE]
    ELSE workers

ThreadContention(workers, roll, pick) ==
  IF Cardinality({i \in DOMAIN workers : workers[i].currentTask # Null})
        > CONTENTION_MIN_ACTIVE /\ roll
    THEN [workers EXCEPT ![pick].isBlocked = TRUE]
    ELSE [i \in DOMAIN workers |-> [workers[i] EXCEPT !.isBlocked = FALSE]]

\* mutant: a thread's IO wait is one tick shorter than a process's
ThreadAdvance_ShortWait(task) ==
  IF task.type = "IO"
    THEN IF task.progress < IO_HANDOFF_PROGRESS
           THEN [task EXCEPT !.progress = @ + IO_PROGRESS_SPEED]
         ELSE IF task.ioWaitTime = Undefined
           THEN [task EXCEPT !.status = "WAITING_IO", !.ioWaitTime = IO_WAIT_TICKS - 1]
         ELSE IF task.ioWaitTime > 0
           THEN [task EXCEPT !.ioWaitTime = @ - 1]
         ELSE [task EXCEPT !.progress = MAX_PROGRESS, !.status = "DONE"]
    ELSE IF task.progress + CPU_PROGRESS_SPEED >= MAX_PROGRESS
           THEN [task EXCEPT !.progress = MAX_PROGRESS, !.status = "DONE"]
           ELSE [task EXCEPT !.progress = @ + CPU_PROGRESS_SPEED]

ThreadAdvance(task) ==
  IF task.type = "IO"
    THEN IF task.progress < IO_HANDOFF_PROGRESS
           THEN [task EXCEPT !.progress = @ + IO_PROGRESS_SPEED]
         ELSE IF task.ioWaitTime = Undefined
           THEN [task EXCEPT !.status = "WAITING_IO", !.ioWaitTime = IO_WAIT_TICKS]
         ELSE IF task.ioWaitTime > 0
           THEN [task EXCEPT !.ioWaitTime = @ - 1]
         ELSE [task EXCEPT !.progress = MAX_PROGRESS, !.status = "DONE"]
    ELSE IF task.progress + CPU_PROGRESS_SPEED >= MAX_PROGRESS
           THEN [task EXCEPT !.progress = MAX_PROGRESS, !.status = "DONE"]
           ELSE [task EXCEPT !.progress = @ + CPU_PROGRESS_SPEED]

\* mutant: the early return of a blocked worker is missing
ThreadSkips_Never(worker) == FALSE

\* if (worker.isBlocked) return;
ThreadSkips(worker) == worker.isBlocked

\* mutant: globalQueue.pop() for globalQueue.shift() in the thread lane
ThreadWorker_Pop(acc, i) ==
  IF ThreadSkips(acc.workers[i]) THEN acc
  ELSE
  LET cur    == acc.workers[i].currentTask
      task   == IF cur # Null THEN ThreadAdvance(cur) ELSE Null
      done   == cur # Null /\ task.status = "DONE"
      after  == IF done THEN Null ELSE task
      assign == after = Null /\ Len(acc.globalQueue) > 0
      o      == acc.globalQueue[Len(acc.globalQueue)]
  IN  [acc EXCEPT
         !.workers[i].currentTask =
             IF assign THEN [TaskOf(o) EXCEPT !.status = "RUNNING"] ELSE after,
         !.globalQueue = IF assign THEN SubSeq(@, 1, Len(@) - 1) ELSE @,
         !.completedTasks = IF done THEN @ + 1 ELSE @,
         !.memoryUsage = IF assign THEN @ + THREAD_MEMORY_STEP ELSE @,
         !.started = IF assign THEN @ \cup {o} ELSE @]

ThreadWorker(acc, i) ==
  IF ThreadSkips(acc.workers[i]) THEN acc
  ELSE
  LET cur    == acc.workers[i].currentTask
      task   == IF cur # Null THEN ThreadAdvance(cur) ELSE Null
      done   == cur # Null /\ task.status = "DONE"
      after  == IF done THEN Null ELSE task
      assign == after = Null /\ Len(acc.globalQueue) > 0
      o      == Head(acc.globalQueue)
  IN  [acc EXCEPT
         !.workers[i].currentTask =
             IF assign THEN [TaskOf(o) EXCEPT !.status = "RUNNING"] ELSE after,
         !.globalQueue = IF assign THEN Tail(@) ELSE @,
         !.completedTasks = IF done THEN @ + 1 ELSE @,
         !.memoryUsage = IF assign THEN @ + THREAD_MEMORY_STEP ELSE @,
         !.started = IF assign THEN @ \cup {o} ELSE @]

RECURSIVE ThreadWorkers(_, _)
ThreadWorkers(acc, i) ==
  IF i >= NUM_WORKERS THEN acc
  ELSE ThreadWorkers(ThreadWorker(acc, i), i + 1)

updateThreadLane(lane, roll, pick) ==
  LET acc == ThreadWorkers([workers |-> ThreadContention(lane.workers, roll, pick),
                            globalQueue |-> lane.globalQueue,
                            completedTasks |-> lane.completedTasks,
                            memoryUsage |-> lane.memoryUsage,
                            started |-> {}], 0)
  IN  [lane |-> [lane EXCEPT !.workers = acc.workers,
                             !.globalQueue = acc.globalQueue,
                             !.completedTasks = acc.completedTasks,
                             !.memoryUsage = Min(acc.memoryUsage, MAX_MEMORY)],
       started |-> acc.started]

\* ---------------------------------------------------- Lane 3: Coroutine
\* mutant: the pool finalizes a task the tick after its wait reached 0, as
\* the worker slots of the process lane do
CoroutineAge_Late(task) ==
  IF task.ioWaitTime # Undefined /\ task.ioWaitTime > 0
    THEN [task EXCEPT !.ioWaitTime = @ - 1]
    ELSE [task EXCEPT !.progress = MAX_PROGRESS, !.status = "DONE"]

\* waitingIO.map(...): one pool task aged by one tick
CoroutineAge(task) ==
  IF task.ioWaitTime # Undefined /\ task.ioWaitTime # 0 /\ task.ioWaitTime > 0
    THEN IF task.ioWaitTime - 1 = 0
           THEN [task EXCEPT !.ioWaitTime = 0, !.progress = MAX_PROGRESS,
                             !.status = "DONE"]
           ELSE [task EXCEPT !.ioWaitTime = @ - 1]
    ELSE task

\* mutant: the waiting pool is carried over unchanged, its waits never
\* count down
CoroutineAgePool_Frozen(waitingIO) == waitingIO

CoroutineAgePool(waitingIO) ==
  [k \in 1 .. Len(waitingIO) |-> CoroutineAge(waitingIO[k])]

\* waitingIO.filter(t => t.status !== 'DONE')
RECURSIVE NotDone(_)
NotDone(pool) ==
  IF pool = <<>> THEN <<>>
  ELSE IF Head(pool).status # "DONE" THEN <<Head(pool)>> \o NotDone(Tail(pool))
       ELSE NotDone(Tail(pool))

\* mutant: the length of the pool is counted, not that of its DONE tasks
CompletedIO_WholePool(pool) == Len(pool)

\* waitingIO.filter(t => t.status === 'DONE').length
CompletedIO(pool) == Cardinality({k \in 1 .. Len(pool) : pool[k].status = "DONE"})

\* mutant: the hand-off waits for one more increment
CoroutineHandsOff_Late(task) ==
  ~(task.progress < IO_HANDOFF_PROGRESS + IO_PROGRESS_SPEED)

\* the worker's IO task reached the hand-off point: !(task.progress < 30)
CoroutineHandsOff(task) == ~(task.progress < IO_HANDOFF_PROGRESS)

\* mutant: a CPU task yields the worker after each step, going back to the
\* end of the shared queue
CoroutineWorker_Yields(acc) ==
  LET cur == acc.currentTask
  IN  IF cur = Null THEN acc
      ELSE IF cur.type = "IO"
        THEN IF ~(cur.progress < IO_HANDOFF_PROGRESS)
               THEN [acc EXCEPT
                       !.waitingIO = Append(@, [cur EXCEPT !.status = "WAITING_IO",
                                                           !.ioWaitTime = IO_WAIT_TICKS]),
                       !.currentTask = Null]
               ELSE [acc EXCEPT !.currentTask.progress = @ + IO_PROGRESS_SPEED]
        ELSE IF cur.progress + CPU_PROGRESS_SPEED >= MAX_PROGRESS
               THEN [acc EXCEPT !.currentTask = Null, !.completedTasks = @ + 1]
             ELSE IF Len(acc.globalQueue) > 0
               THEN [acc EXCEPT
                       !.currentTask = [TaskOf(Head(acc.globalQueue))
                                          EXCEPT !.status = "RUNNING"],
                       !.globalQueue = Append(Tail(@), cur.obj),
                       !.started = @ \cup {Head(acc.globalQueue)}]
               ELSE [acc EXCEPT !.currentTask.progress = @ + CPU_PROGRESS_SPEED]

\* mutant: an IO task is counted as completed when it is handed off, and
\* again when the pool finalizes it
CoroutineWorker_CountsHandoff(acc) ==
  LET cur == acc.currentTask
  IN  IF cur = Null THEN acc
      ELSE IF cur.type = "IO"
        THEN IF cur.progress < IO_HANDOFF_PROGRESS
               THEN [acc EXCEPT !.currentTask.progress = @ + IO_PROGRESS_SPEED]
               ELSE [acc EXCEPT
                       !.waitingIO = Append(@, [cur EXCEPT !.status = "WAITING_IO",
                                                           !.ioWaitTime = IO_WAIT_TICKS]),
                       !.currentTask = Null,
                       !.completedTasks = @ + 1]
        ELSE IF cur.progress + CPU_PROGRESS_SPEED >= MAX_PROGRESS
               THEN [acc EXCEPT !.currentTask = Null, !.completedTasks = @ + 1]
               ELSE [acc EXCEPT !.currentTask.progress = @ + CPU_PROGRESS_SPEED]

\* if (worker.currentTask) { ... }: acc carries worker 0's task, waitingIO
\* and completedTasks
CoroutineWorker(acc) ==
  LET cur == acc.currentTask
  IN  IF cur = Null THEN acc
      ELSE IF cur.type = "IO"
        THEN IF ~CoroutineHandsOff(cur)
               THEN [acc EXCEPT !.currentTask.progress = @ + IO_PROGRESS_SPEED]
               ELSE [acc EXCEPT
                       !.waitingIO = Append(@, [cur EXCEPT !.status = "WAITING_IO",
                                                           !.ioWaitTime = IO_WAIT_TICKS]),
                       !.currentTask = Null]
        ELSE IF cur.progress + CPU_PROGRESS_SPEED >= MAX_PROGRESS
               THEN [acc EXCEPT !.currentTask = Null, !.completedTasks = @ + 1]
               ELSE [acc EXCEPT !.currentTask.progress = @ + CPU_PROGRESS_SPEED]

\* mutant: globalQueue.pop() for globalQueue.shift()
CoroutineAssign_Pop(acc) ==
  IF acc.currentTask = Null /\ Len(acc.globalQueue) > 0
    THEN [acc EXCEPT
            !.currentTask = [TaskOf(acc.globalQueue[Len(acc.globalQueue)])
                               EXCEPT !.status = "RUNNING"],
            !.globalQueue = SubSeq(@, 1, Len(@) - 1),
            !.started = @ \cup {acc.globalQueue[Len(acc.globalQueue)]}]
    ELSE acc

\* mutant: the task taken off the queue gets its first step in the same tick
CoroutineAssign_Steps(acc) ==
  IF acc.currentTask = Null /\ Len(acc.globalQueue) > 0
    THEN LET task == TaskOf(Head(acc.globalQueue))
         IN  [acc EXCEPT
                !.currentTask =
                    [task EXCEPT !.status = "RUNNING",
                                 !.progress = IF task.type = "CPU"
                                                THEN CPU_PROGRESS_SPEED
                                                ELSE IO_PROGRESS_SPEED],
                !.globalQueue = Tail(@),
                !.started = @ \cup {Head(acc.globalQueue)}]
    ELSE acc

\* if (!worker.currentTask && globalQueue.length > 0) { ... }
CoroutineAssign(acc) ==
  IF acc.currentTask = Null /\ Len(acc.globalQueue) > 0
    THEN [acc EXCEPT
            !.currentTask = [TaskOf(Head(acc.globalQueue)) EXCEPT !.status = "RUNNING"],
            !.globalQueue = Tail(@),
            !.started = @ \cup {Head(acc.globalQueue)}]
    ELSE acc

updateCoroutineLane(lane) ==
  LET aged == CoroutineAgePool(lane.waitingIO)
      acc  == CoroutineAssign(CoroutineWorker(
                [currentTask |-> lane.workers[0].currentTask,
                 globalQueue |-> lane.globalQueue,
                 waitingIO |-> NotDone(aged),
                 completedTasks |-> lane.completedTasks + CompletedIO(aged),
                 started |-> {}]))
  IN  [lane |-> [lane EXCEPT !.workers[0].currentTask = acc.currentTask,
                             !.globalQueue = acc.globalQueue,
                             !.waitingIO = acc.waitingIO,
                             !.completedTasks = acc.completedTasks],
       started |-> acc.started]

\* ---------------------------------------------------- Lane 4: Goroutine
\* mutant: the blocking IO branch of the process lane, pasted into the
\* work-stealing lane
GoroutineAdvance_Blocking(task) == ProcessAdvance(task)

GoroutineAdvance(task) ==
  IF task.type = "IO"
    THEN IF task.progress + IO_PROGRESS_SPEED >= MAX_PROGRESS
           THEN [task EXCEPT !.progress = MAX_PROGRESS, !.status = "DONE"]
           ELSE [task EXCEPT !.progress = @ + IO_PROGRESS_SPEED]
    ELSE IF task.progress + CPU_PROGRESS_SPEED >= MAX_PROGRESS
           THEN [task EXCEPT !.progress = MAX_PROGRESS, !.status = "DONE"]
           ELSE [task EXCEPT !.progress = @ + CPU_PROGRESS_SPEED]

\* first forEach: progress, then assignment from the worker's own queue
GoroutineWorker(acc, idx) ==
  LET cur    == acc.workers[idx].currentTask
      task   == IF cur # Null THEN GoroutineAdvance(cur) ELSE Null
      done   == cur # Null /\ task.status = "DONE"
      after  == IF done THEN Null ELSE task
      assign == after = Null /\ Len(acc.localQueues[idx]) > 0
      o      == Head(acc.localQueues[idx])
  IN  [acc EXCEPT
         !.workers[idx].currentTask =
             IF assign THEN [TaskOf(o) EXCEPT !.status = "RUNNING"] ELSE after,
         !.localQueues[idx] = IF assign THEN Tail(@) ELSE @,
         !.completedTasks = IF done THEN @ + 1 ELSE @,
         !.started = IF assign THEN @ \cup {o} ELSE @]

RECURSIVE GoroutineWorkers(_, _)
GoroutineWorkers(acc, idx) ==
  IF idx >= NUM_WORKERS THEN acc
  ELSE GoroutineWorkers(GoroutineWorker(acc, idx), idx + 1)

\* mutant: a queue becomes a donor only above 3 tasks
Donors_Strict(localQueues, idx) ==
  {i \in DOMAIN localQueues : i # idx /\ Len(localQueues[i]) > STEAL_THRESHOLD + 1}

\* for (let i = 0; ...) if (i !== idx && localQueues[i].length > 2): the
\* donors worker idx may steal from
Donors(localQueues, idx) ==
  {i \in DOMAIN localQueues : i # idx /\ Len(localQueues[i]) > STEAL_THRESHOLD}

\* mutant: the scan runs from the last worker down
Donor_Last(localQueues, idx) ==
  CHOOSE i \in Donors(localQueues, idx) :
    \A j \in Donors(localQueues, idx) : i >= j

\* the donor the scan stops at (break)
Donor(localQueues, idx) ==
  CHOOSE i \in Donors(localQueues, idx) :
    \A j \in Donors(localQueues, idx) : i <= j

\* mutant: Math.ceil for Math.floor
StealCount_Ceil(queue) == (Len(queue) + 1) \div 2

\* Math.floor(localQueues[i].length / 2)
StealCount(queue) == Len(queue) \div 2

\* worker idx is idle with an empty queue
Thief(workers, localQueues, idx) ==
  workers[idx].currentTask = Null /\ Len(localQueues[idx]) = 0

\* mutant: slice(0, stealCount) for splice(0, stealCount): the donor keeps
\* what the thief takes
Steal_Slice(workers, localQueues, idx) ==
  IF workers[idx].currentTask = Null /\ Len(localQueues[idx]) = 0
       /\ \E i \in DOMAIN localQueues : i # idx /\ Len(localQueues[i]) > STEAL_THRESHOLD
    THEN LET i == CHOOSE i \in DOMAIN localQueues :
                    /\ i # idx /\ Len(localQueues[i]) > STEAL_THRESHOLD
                    /\ \A j \in DOMAIN localQueues :
                         j # idx /\ Len(localQueues[j]) > STEAL_THRESHOLD => i <= j
         IN  [localQueues EXCEPT
                ![idx] = @ \o SubSeq(localQueues[i], 1, Len(localQueues[i]) \div 2)]
    ELSE localQueues

\* second forEach, worker idx: splice(0, stealCount) and push(...stolen)
Steal(workers, localQueues, idx) ==
  IF Thief(workers, localQueues, idx) /\ Donors(localQueues, idx) # {}
    THEN LET i == Donor(localQueues, idx)
             stealCount == StealCount(localQueues[i])
         IN  [localQueues EXCEPT
                ![i] = SubSeq(@, stealCount + 1, Len(@)),
                ![idx] = @ \o SubSeq(localQueues[i], 1, stealCount)]
    ELSE localQueues

\* the second forEach, from worker idx up to (not including) worker end
RECURSIVE StealLoop(_, _, _, _)
StealLoop(workers, localQueues, idx, end) ==
  IF idx >= end THEN localQueues
  ELSE StealLoop(workers, Steal(workers, localQueues, idx), idx + 1, end)

WorkStealing(workers, localQueues) ==
  StealLoop(workers, localQueues, 0, NUM_WORKERS)

\* the state after the first forEach (progress and local assignment)
GoroutineProgress(lane) ==
  GoroutineWorkers([workers |-> lane.workers,
                    localQueues |-> lane.localQueues,
                    completedTasks |-> lane.completedTasks,
                    started |-> {}], 0)

updateGoroutineLane(lane) ==
  LET acc == GoroutineProgress(lane)
  IN  [lane |-> [lane EXCEPT !.workers = acc.workers,
                             !.localQueues = WorkStealing(acc.workers, acc.localQueues),
                             !.completedTasks = acc.completedTasks],
       started |-> acc.started]

\* ------------------------------------------------------------ the hook
\* the state cells of the hook as they are now: what prev keeps of the state
\* an operation started from
Lanes == [processLane |-> processLane, threadLane |-> threadLane,
          coroutineLane |-> coroutineLane, goroutineLane |-> goroutineLane,
          isRunning |-> isRunning]

\* no worker was chosen by the contention roll
NoWorker == -1

Init ==
  /\ isRunning = FALSE
  /\ processLane = createInitialLane(NUM_WORKERS, FALSE)
  /\ threadLane = createInitialLane(NUM_WORKERS, FALSE)
  /\ coroutineLane = createInitialLane(1, FALSE)
  /\ goroutineLane = createInitialLane(NUM_WORKERS, TRUE)
  /\ heap = <<>>
  /\ now = 0
  /\ op = "init"
  /\ prev = Lanes
  /\ chosen = NoWorker
  /\ budget \in Budgets
  /\ blocks = 0
  /\ pauses = 0

\* the task objects of Array.from({ length: count }, ...) at clock value t
NewIOTasks(count, t) ==
  [i \in 1 .. count |-> [id |-> <<"io", t, i - 1>>, type |-> "IO",
                         progress |-> 0, status |-> "QUEUED"]]

\* newTasks.forEach((task, idx) => localQueues[idx % NUM_WORKERS].push(task)),
\* the new objects being heap[first + 1 .. first + count]
RECURSIVE Distribute(_, _, _, _)
Distribute(localQueues, first, count, idx) ==
  IF idx >= count THEN localQueues
  ELSE Distribute([localQueues EXCEPT ![idx % NUM_WORKERS] = Append(@, first + idx + 1)],
                  first, count, idx + 1)

\* Date.now() of a creating call: the clock value of the previous creating
\* call or a later one (clock values are counted from the first call after a
\* reset)
ClockSteps == IF budget.sameClock THEN {0, 1} ELSE {1}
Clock(advance) == IF heap = <<>> THEN 0 ELSE now + advance

\* disabled={isRunning} on the Spawn and Inject buttons of App
ControlsEnabled == ~isRunning

spawnIOTasks(count, advance) ==
  /\ ControlsEnabled
  /\ Len(heap) + count <= budget.tasks
  /\ LET first == Len(heap)
         objs  == [i \in 1 .. count |-> first + i]
     IN  /\ heap' = heap \o NewIOTasks(count, Clock(advance))
         /\ processLane' = [processLane EXCEPT !.globalQueue = @ \o objs]
         /\ threadLane' = [threadLane EXCEPT !.globalQueue = @ \o objs]
         /\ coroutineLane' = [coroutineLane EXCEPT !.globalQueue = @ \o objs]
         /\ goroutineLane' = [goroutineLane EXCEPT
                                !.localQueues = Distribute(@, first, count, 0)]
  /\ now' = Clock(advance)
  /\ op' = "spawn"
  /\ prev' = Lanes
  /\ chosen' = NoWorker
  /\ UNCHANGED <<isRunning, budget, blocks, pauses>>

CPUTasks == {o \in 1 .. Len(heap) : heap[o].type = "CPU"}

injectCPUTask(advance) ==
  /\ ControlsEnabled
  /\ Len(heap) + 1 <= budget.tasks
  /\ Cardinality(CPUTasks) < budget.cpu
  /\ LET o == Len(heap) + 1
     IN  /\ heap' = Append(heap, [id |-> <<"cpu", Clock(advance)>>, type |-> "CPU",
                                  progress |-> 0, status |-> "QUEUED"])
         /\ processLane' = [processLane EXCEPT !.globalQueue = Append(@, o)]
         /\ threadLane' = [threadLane EXCEPT !.globalQueue = Append(@, o)]
         /\ coroutineLane' = [coroutineLane EXCEPT !.globalQueue = Append(@, o)]
         /\ goroutineLane' = [goroutineLane EXCEPT !.localQueues[0] = Append(@, o)]
  /\ now' = Clock(advance)
  /\ op' = "inject"
  /\ prev' = Lanes
  /\ chosen' = NoWorker
  /\ UNCHANGED <<isRunning, budget, blocks, pauses>>

\* mutant: the setter of the work-stealing lane is not called
reset_ForgetsGoroutine ==
  /\ isRunning' = FALSE
  /\ processLane' = createInitialLane(NUM_WORKERS, FALSE)
  /\ threadLane' = createInitialLane(NUM_WORKERS, FALSE)
  /\ coroutineLane' = createInitialLane(1, FALSE)
  /\ heap' = <<>>
  /\ now' = 0
  /\ op' = "reset"
  /\ prev' = Lanes
  /\ chosen' = NoWorker
  /\ blocks' = 0
  /\ pauses' = 0
  /\ UNCHANGED <<goroutineLane, budget>>

reset ==
  /\ isRunning' = FALSE
  /\ processLane' = createInitialLane(NUM_WORKERS, FALSE)
  /\ threadLane' = createInitialLane(NUM_WORKERS, FALSE)
  /\ coroutineLane' = createInitialLane(1, FALSE)
  /\ goroutineLane' = createInitialLane(NUM_WORKERS, TRUE)
  /\ heap' = <<>>
  /\ now' = 0
  /\ op' = "reset"
  /\ prev' = Lanes
  /\ chosen' = NoWorker
  /\ blocks' = 0
  /\ pauses' = 0
  /\ UNCHANGED budget

\* onClick={() => setIsRunning(!isRunning)}
setIsRunning(value) ==
  /\ value = ~isRunning
  /\ isRunning => pauses < budget.pauses
  /\ isRunning' = value
  /\ pauses' = IF isRunning THEN pauses + 1 ELSE pauses
  /\ op' = IF value THEN "start" ELSE "pause"
  /\ prev' = Lanes
  /\ chosen' = NoWorker
  /\ UNCHANGED <<processLane, threadLane, coroutineLane, goroutineLane,
                 heap, now, budget, blocks>>

\* activeWorkers.length > 2: only then is Math.random() < 0.3 evaluated
Contended ==
  Cardinality({i \in WorkerIds(NUM_WORKERS) :
                 threadLane.workers[i].currentTask # Null}) > CONTENTION_MIN_ACTIVE

\* the outcomes of Math.random() < 0.3
Rolls == IF Contended /\ blocks < budget.blocks THEN BOOLEAN ELSE {FALSE}

\* the outcomes of Math.floor(Math.random() * workers.length), evaluated
\* only when the roll succeeds
Picks(roll) == IF roll THEN WorkerIds(NUM_WORKERS) ELSE {0}

\* task.status = 'RUNNING' on the objects taken off a queue
MarkRunning(h, started) ==
  [o \in 1 .. Len(h) |-> IF o \in started THEN [h[o] EXCEPT !.status = "RUNNING"]
                         ELSE h[o]]

\* the setInterval callback: the four updaters, in order
Tick(roll, pick) ==
  /\ isRunning
  /\ LET p == updateProcessLane(processLane)
         t == updateThreadLane(threadLane, roll, pick)
         c == updateCoroutineLane(coroutineLane)
         g == updateGoroutineLane(goroutineLane)
     IN  /\ processLane' = p.lane
         /\ threadLane' = t.lane
         /\ coroutineLane' = c.lane
         /\ goroutineLane' = g.lane
         /\ heap' = MarkRunning(heap, p.started \cup t.started \cup c.started
                                        \cup g.started)
  /\ blocks' = IF roll THEN blocks + 1 ELSE blocks
  /\ op' = "tick"
  /\ prev' = Lanes
  /\ chosen' = IF roll THEN pick ELSE NoWorker
  /\ UNCHANGED <<isRunning, now, budget, pauses>>

Next ==
  \/ \E count \in 1 .. budget.batch, advance \in ClockSteps : spawnIOTasks(count, advance)
  \/ \E advance \in ClockSteps : injectCPUTask(advance)
  \/ reset
  \/ setIsRunning(~isRunning)
  \/ \E roll \in Rolls : \E pick \in Picks(roll) : Tick(roll, pick)

Spec == Init /\ [][Next]_vars

\* ------------------------------------------------------------- the App
\* The hook as App drives it: the Spawn button always asks for SPAWN_COUNT
\* tasks, and the interval fires for as long as isRunning holds.
AppBudget == [tasks |-> AppSpawns * SPAWN_COUNT + AppCPU, cpu |-> AppCPU,
              blocks |-> 0, pauses |-> 0, sameClock |-> FALSE,
              batch |-> SPAWN_COUNT]

AppInit ==
  /\ isRunning = FALSE
  /\ processLane = createInitialLane(NUM_WORKERS, FALSE)
  /\ threadLane = createInitialLane(NUM_WORKERS, FALSE)
  /\ coroutineLane = createInitialLane(1, FALSE)
  /\ goroutineLane = createInitialLane(NUM_WORKERS, TRUE)
  /\ heap = <<>>
  /\ now = 0
  /\ op = "init"
  /\ prev = Lanes
  /\ chosen = NoWorker
  /\ budget = AppBudget
  /\ blocks = 0
  /\ pauses = 0

\* setInterval(() => { ... }, TICK_INTERVAL)
Interval == \E roll \in Rolls : \E pick \in Picks(roll) : Tick(roll, pick)

AppNext ==
  \/ \E advance \in ClockSteps : spawnIOTasks(SPAWN_COUNT, advance)
  \/ \E advance \in ClockSteps : injectCPUTask(advance)
  \/ reset
  \/ setIsRunning(~isRunning)
  \/ Interval

AppSpec == AppInit /\ [][AppNext]_vars

\* The timer behind setInterval: for as long as isRunning holds the callback
\* is called again, and a call leaves op = "tick" with prev the state it
\* started from.  Fairness is stated on that footprint of a call; it asks no
\* more than WF_vars(Interval) does: wherever a call would change op or prev,
\* Interval is enabled and every step of it is a step of Timer.
Timer == isRunning /\ op' = "tick" /\ prev' = Lanes

\* the interval keeps firing while the simulation runs
AppLive == AppInit /\ [][AppNext]_vars /\ WF_<<op, prev>>(Timer)

\* The hook with its interval: ticks keep coming for as long as isRunning
\* holds.
LiveSpec == Init /\ [][Next]_vars /\ WF_<<op, prev>>(Timer)

\* ================================================================ claims
LaneNames == {"processLane", "threadLane", "coroutineLane", "goroutineLane"}

\* in how many places of the lane's containers the task object o is held
Occurrences(lane, o) ==
    Cardinality({i \in DOMAIN lane.workers : lane.workers[i].currentTask.obj = o})
  + Cardinality({k \in 1 .. Len(lane.globalQueue) : lane.globalQueue[k] = o})
  + Cardinality({<<i, k>> \in (DOMAIN lane.localQueues) \X (1 .. Len(heap)) :
                   k <= Len(lane.localQueues[i]) /\ lane.localQueues[i][k] = o})
  + Cardinality({k \in 1 .. Len(lane.waitingIO) : lane.waitingIO[k].obj = o})

\* the task objects a lane's containers hold
Live(lane) ==
       ({lane.workers[i].currentTask.obj : i \in DOMAIN lane.workers} \ {0})
  \cup {lane.globalQueue[k] : k \in 1 .. Len(lane.globalQueue)}
  \cup UNION {{lane.localQueues[i][k] : k \in 1 .. Len(lane.localQueues[i])} :
                i \in DOMAIN lane.localQueues}
  \cup {lane.waitingIO[k].obj : k \in 1 .. Len(lane.waitingIO)}

\* the tasks of a lane that sit in a worker slot or in the waiting pool
Copies(lane) ==
       ({lane.workers[i].currentTask : i \in DOMAIN lane.workers} \ {Null})
  \cup {lane.waitingIO[k] : k \in 1 .. Len(lane.waitingIO)}

\* the progress a lane shows for the task object o it holds (a queued task
\* is the object of the heap, whose progress nothing changes)
ProgressIn(lane, o) ==
  IF \E t \in Copies(lane) : t.obj = o
    THEN (CHOOSE t \in Copies(lane) : t.obj = o).progress
    ELSE 0

\* C1: in every lane and every tick completedTasks does not decrease, and
\* it grows by exactly the number of tasks that left the lane's containers
\* in that tick (each completed task counted once, nothing counted that did
\* not complete); the other operations short of reset leave it alone.
C1_CompletedCountsDoneTasks ==
  \A l \in LaneNames :
    /\ op = "tick" =>
         /\ Lanes[l].completedTasks >= prev[l].completedTasks
         /\ Live(Lanes[l]) \subseteq Live(prev[l])
         /\ Lanes[l].completedTasks - prev[l].completedTasks
              = Cardinality(Live(prev[l]) \ Live(Lanes[l]))
    /\ op \in {"spawn", "inject", "start", "pause"} =>
         Lanes[l].completedTasks = prev[l].completedTasks

\* a tick in which two workers of the work-stealing lane and a worker of the
\* process lane completed a task
C1_Witness ==
  /\ op = "tick"
  /\ goroutineLane.completedTasks >= prev.goroutineLane.completedTasks + 2
  /\ processLane.completedTasks > 0

\* C2: in every reachable state, within each lane, every task created since
\* the last reset is either held in exactly one place of the lane's
\* containers or has been counted in completedTasks.
C2_OneOwner ==
  \A l \in LaneNames :
    /\ Live(Lanes[l]) \subseteq 1 .. Len(heap)
    /\ \A o \in 1 .. Len(heap) : Occurrences(Lanes[l], o) <= 1
    /\ Cardinality(Live(Lanes[l])) + Lanes[l].completedTasks = Len(heap)

\* after a tick the event-loop lane holds tasks in its worker, its queue and
\* its pool at once, and the work-stealing lane in a worker and in two
\* private queues, having completed a task
C2_Witness ==
  /\ op = "tick"
  /\ coroutineLane.workers[0].currentTask # Null
  /\ Len(coroutineLane.globalQueue) > 0
  /\ Len(coroutineLane.waitingIO) > 0
  /\ goroutineLane.workers[0].currentTask # Null
  /\ Len(goroutineLane.localQueues[0]) > 0
  /\ Len(goroutineLane.localQueues[1]) > 0
  /\ goroutineLane.completedTasks > 0

\* C3: every task's progress is within 0..100 and no tick lowers the
\* progress of a task the lane still holds.
C3_ProgressMonotone ==
  \A l \in LaneNames :
    /\ \A t \in Copies(Lanes[l]) : t.progress \in 0 .. MAX_PROGRESS
    /\ \A o \in Live(Lanes[l]) : heap[o].progress \in 0 .. MAX_PROGRESS
    /\ op = "tick" =>
         \A o \in Live(Lanes[l]) \cap Live(prev[l]) :
           ProgressIn(Lanes[l], o) >= ProgressIn(prev[l], o)

\* a tick that advanced a CPU task in the event-loop lane while an IO task
\* of the process lane sat in its wait
C3_Witness ==
  /\ op = "tick"
  /\ coroutineLane.workers[0].currentTask.type = "CPU"
  /\ coroutineLane.workers[0].currentTask.progress
       > prev.coroutineLane.workers[0].currentTask.progress
  /\ prev.coroutineLane.workers[0].currentTask.progress > 0
  /\ \E i \in WorkerIds(NUM_WORKERS) :
       /\ processLane.workers[i].currentTask.status = "WAITING_IO"
       /\ prev.processLane.workers[i].currentTask.status = "WAITING_IO"

\* the workers of the thread lane with isBlocked set
Blocked(lane) == {i \in DOMAIN lane.workers : lane.workers[i].isBlocked}

\* C4: in the thread lane, after every tick at most one worker has
\* isBlocked set, and only the worker that tick's contention roll chose: a
\* flag set in one tick does not carry over into the next.
C4_OnlyChosenBlocked ==
  op = "tick" =>
    /\ Cardinality(Blocked(threadLane)) <= 1
    /\ \A i \in Blocked(threadLane) : i = chosen

\* the workers the thread lane's loop did not skip in the last tick
Unblocked == WorkerIds(NUM_WORKERS) \ Blocked(threadLane)

\* the unblocked workers that took a task off the shared queue in the last tick
ThreadDequeuers ==
  {i \in Unblocked :
     /\ threadLane.workers[i].currentTask # Null
     /\ threadLane.workers[i].currentTask.obj
          # prev.threadLane.workers[i].currentTask.obj}

\* the unblocked workers whose task left the lane in the last tick
ThreadFinishers ==
  {i \in Unblocked :
     /\ prev.threadLane.workers[i].currentTask # Null
     /\ threadLane.workers[i].currentTask.obj
          # prev.threadLane.workers[i].currentTask.obj}

\* C5: in the thread lane a worker that is blocked during a tick is skipped
\* entirely: its currentTask is unchanged, and the tasks dequeued, the
\* completions counted and the memory added in that tick are those of the
\* unblocked workers alone.
C5_BlockedWorkerSkipped ==
  op = "tick" =>
    /\ \A i \in Blocked(threadLane) :
         threadLane.workers[i].currentTask = prev.threadLane.workers[i].currentTask
    /\ threadLane.globalQueue
         = SubSeq(prev.threadLane.globalQueue, Cardinality(ThreadDequeuers) + 1,
                  Len(prev.threadLane.globalQueue))
    /\ threadLane.completedTasks
         = prev.threadLane.completedTasks + Cardinality(ThreadFinishers)
    /\ threadLane.memoryUsage
         = Min(prev.threadLane.memoryUsage
                 + THREAD_MEMORY_STEP * Cardinality(ThreadDequeuers), MAX_MEMORY)

\* a tick that skipped a blocked worker holding a task it could have
\* advanced, while another worker advanced its own
C5_Witness ==
  /\ op = "tick"
  /\ \E i \in Blocked(threadLane), j \in Unblocked :
       /\ threadLane.workers[i].currentTask # Null
       /\ threadLane.workers[i].currentTask.progress < IO_HANDOFF_PROGRESS
       /\ threadLane.workers[j].currentTask # Null
       /\ threadLane.workers[j].currentTask # prev.threadLane.workers[j].currentTask

\* the event-loop lane's worker task before and after the last operation
CoWas == prev.coroutineLane.workers[0].currentTask
CoIs == coroutineLane.workers[0].currentTask

\* the pool entries of a lane for the task object o
PoolEntries(lane, o) == {k \in 1 .. Len(lane.waitingIO) : lane.waitingIO[k].obj = o}

\* C6 as stated: no state at the end of a tick has the event-loop worker
\* holding an IO task whose progress is 30 or more.
C6_NoIOAtHandoffProgress ==
  op = "tick" => ~(CoIs.type = "IO" /\ CoIs.progress >= IO_HANDOFF_PROGRESS)

\* C6 as amended: an IO task the worker holds with progress 30 or more at
\* the start of a tick is in the waiting pool (WAITING_IO, a full wait ahead)
\* and no longer in the worker at the end of that tick; so the worker shows an
\* IO task at progress >= 30 in one end-of-tick state at most, the one that
\* follows the increment that took it there.
C6_HandoffInNextTick ==
  /\ op = "tick" /\ CoWas.type = "IO" /\ CoWas.progress >= IO_HANDOFF_PROGRESS =>
       /\ CoIs.obj # CoWas.obj
       /\ \E k \in PoolEntries(coroutineLane, CoWas.obj) :
            coroutineLane.waitingIO[k]
              = [CoWas EXCEPT !.status = "WAITING_IO", !.ioWaitTime = IO_WAIT_TICKS]
  /\ op = "tick" /\ CoIs.type = "IO" /\ CoIs.progress >= IO_HANDOFF_PROGRESS =>
       /\ CoWas.obj = CoIs.obj
       /\ CoWas.progress < IO_HANDOFF_PROGRESS

\* a tick that moved the worker's IO task to the pool
C6_Witness ==
  /\ op = "tick"
  /\ CoWas.type = "IO"
  /\ CoWas.progress >= IO_HANDOFF_PROGRESS
  /\ PoolEntries(coroutineLane, CoWas.obj) # {}

\* the last tick started with the worker holding a task it gave up in the
\* tick: an IO task due for hand-off or a CPU task one step from 100
CoReleases ==
  \/ CoWas.type = "IO" /\ CoWas.progress >= IO_HANDOFF_PROGRESS
  \/ CoWas.type = "CPU" /\ CoWas.progress + CPU_PROGRESS_SPEED >= MAX_PROGRESS

\* C7: in the tick in which the event-loop worker hands an IO task off (or
\* finishes a CPU task) with the shared queue non-empty, the worker ends the
\* tick holding the former head of the queue, RUNNING; the worker is never
\* idle at the end of a tick while the shared queue is non-empty.
C7_NoIdleTick ==
  op = "tick" =>
    /\ CoIs = Null => coroutineLane.globalQueue = <<>>
    /\ CoReleases /\ prev.coroutineLane.globalQueue # <<>> =>
         /\ CoIs.obj = Head(prev.coroutineLane.globalQueue)
         /\ CoIs.status = "RUNNING"
         /\ CoIs.progress = 0
         /\ coroutineLane.globalQueue = Tail(prev.coroutineLane.globalQueue)

\* a tick that handed an IO task off and started the head of a queue of two
C7_Witness ==
  /\ op = "tick"
  /\ CoWas.type = "IO"
  /\ CoWas.progress >= IO_HANDOFF_PROGRESS
  /\ Len(prev.coroutineLane.globalQueue) >= 2
  /\ CoIs.obj = Head(prev.coroutineLane.globalQueue)

\* C8: a tick of the event-loop lane that starts with the worker holding a
\* CPU task and ends with that task below 100 leaves the shared queue as it
\* was; the queue moves, with a CPU task in the worker, only in the tick in
\* which that task reaches 100.
C8_CPUFreezesQueue ==
  op = "tick" /\ CoWas.type = "CPU" =>
    /\ CoWas.progress + CPU_PROGRESS_SPEED < MAX_PROGRESS =>
         /\ CoIs = [CoWas EXCEPT !.progress = @ + CPU_PROGRESS_SPEED]
         /\ coroutineLane.globalQueue = prev.coroutineLane.globalQueue
    /\ coroutineLane.globalQueue # prev.coroutineLane.globalQueue =>
         /\ CoWas.progress + CPU_PROGRESS_SPEED >= MAX_PROGRESS
         /\ CoIs.obj = Head(prev.coroutineLane.globalQueue)

\* a tick that advanced the worker's CPU task with a task waiting in the queue
C8_Witness ==
  /\ op = "tick"
  /\ CoWas.type = "CPU"
  /\ CoIs.obj = CoWas.obj
  /\ CoIs.progress > CoWas.progress
  /\ coroutineLane.globalQueue # <<>>

\* the pool tasks of the event-loop lane that were one tick from the end of
\* their wait when the last operation started
CoDue == {k \in 1 .. Len(prev.coroutineLane.waitingIO) :
            prev.coroutineLane.waitingIO[k].ioWaitTime = 1}

\* C9: every task in the event-loop lane's waiting pool enters it with
\* ioWaitTime = IO_WAIT_TICKS, has it lowered by exactly 1 by every tick,
\* and leaves the lane, counted once in completedTasks, in the tick that
\* takes it to 0, whatever the worker holds.
C9_PoolAging ==
  /\ \A k \in 1 .. Len(coroutineLane.waitingIO) :
       /\ coroutineLane.waitingIO[k].ioWaitTime \in 1 .. IO_WAIT_TICKS
       /\ coroutineLane.waitingIO[k].status = "WAITING_IO"
  /\ op = "tick" =>
       /\ \A k \in 1 .. Len(prev.coroutineLane.waitingIO) :
            LET was == prev.coroutineLane.waitingIO[k]
            IN  IF k \in CoDue
                  THEN was.obj \notin Live(coroutineLane)
                  ELSE \E j \in PoolEntries(coroutineLane, was.obj) :
                         coroutineLane.waitingIO[j]
                           = [was EXCEPT !.ioWaitTime = @ - 1]
       /\ \A j \in 1 .. Len(coroutineLane.waitingIO) :
            PoolEntries(prev.coroutineLane, coroutineLane.waitingIO[j].obj) = {} =>
              /\ coroutineLane.waitingIO[j].ioWaitTime = IO_WAIT_TICKS
              /\ coroutineLane.waitingIO[j].obj = CoWas.obj
       /\ coroutineLane.completedTasks
            = prev.coroutineLane.completedTasks + Cardinality(CoDue)
                + (IF CoWas.type = "CPU" /\ CoIs.obj # CoWas.obj THEN 1 ELSE 0)

\* a tick that finalized a pool task while the worker was held by a CPU task
C9_Witness ==
  /\ op = "tick"
  /\ CoDue # {}
  /\ CoWas.type = "CPU"
  /\ CoIs.obj = CoWas.obj
  /\ coroutineLane.completedTasks = prev.coroutineLane.completedTasks + 1

\* the work-stealing lane after the progress and dequeue steps of the last
\* tick, before its steal step
GoPre == GoroutineProgress(prev.goroutineLane)

\* the private queues at each worker's turn in the steal step that starts
\* from pre: turn NUM_WORKERS is the end of the step
GoTurns(pre) ==
  LET q0 == pre.localQueues
      q1 == Steal(pre.workers, q0, 0)
      q2 == Steal(pre.workers, q1, 1)
      q3 == Steal(pre.workers, q2, 2)
      q4 == Steal(pre.workers, q3, 3)
  IN  [w \in 0 .. NUM_WORKERS |->
         IF w = 0 THEN q0 ELSE IF w = 1 THEN q1 ELSE IF w = 2 THEN q2
         ELSE IF w = 3 THEN q3 ELSE q4]

\* the workers idle with an empty private queue, with a donor in reach, when
\* the steal step starts from pre
GoThieves(pre) ==
  {w \in WorkerIds(NUM_WORKERS) :
     /\ Thief(pre.workers, pre.localQueues, w)
     /\ Donors(pre.localQueues, w) # {}}

\* the task objects in the private queues qs, and how many entries they have
QueuedObjs(qs) == UNION {{qs[i][k] : k \in 1 .. Len(qs[i])} : i \in DOMAIN qs}

RECURSIVE QueuedCount(_, _)
QueuedCount(qs, i) ==
  IF i >= NUM_WORKERS THEN 0 ELSE Len(qs[i]) + QueuedCount(qs, i + 1)

\* C10 as stated: after the steal step of a tick, every worker that was idle
\* with an empty queue while another queue was longer than 2 has
\* floor(n / 2) tasks, n the donor's length before the steal step, and that
\* donor has n - floor(n / 2): also when several workers are idle.
C10_EveryIdleWorkerGetsHalf ==
  op = "tick" =>
    LET pre == GoPre
    IN  \A w \in GoThieves(pre) :
          \E d \in Donors(pre.localQueues, w) :
            LET n == Len(pre.localQueues[d])
            IN  /\ Len(goroutineLane.localQueues[w]) = n \div 2
                /\ Len(goroutineLane.localQueues[d]) = n - (n \div 2)

\* C10 as amended: each idle worker with an empty queue takes, at its turn
\* in index order, the first floor(n / 2) tasks of the lowest-indexed other
\* queue that is then longer than 2, n being that queue's length at that
\* moment (earlier steals of the same tick included), and the donor keeps
\* the other n - floor(n / 2); no task is duplicated or lost by the steal
\* step.  The lengths at the end of the step are floor(n / 2) and
\* n - floor(n / 2) of the lengths before the step when one worker steals.
C10_StealHalf ==
  op = "tick" =>
    LET pre   == GoPre
        turns == GoTurns(pre)
    IN  /\ \A w \in WorkerIds(NUM_WORKERS) :
             LET at    == turns[w]
                 after == turns[w + 1]
             IN  IF Thief(pre.workers, at, w) /\ Donors(at, w) # {}
                   THEN LET d == Donor(at, w)
                            n == Len(at[d])
                        IN  /\ at[w] = <<>>
                            /\ Len(after[w]) = n \div 2
                            /\ Len(after[d]) = n - (n \div 2)
                            /\ after[w] \o after[d] = at[d]
                            /\ \A i \in WorkerIds(NUM_WORKERS) \ {w, d} :
                                 after[i] = at[i]
                   ELSE after = at
        /\ goroutineLane.localQueues = turns[NUM_WORKERS]
        /\ QueuedObjs(goroutineLane.localQueues) = QueuedObjs(pre.localQueues)
        /\ QueuedCount(goroutineLane.localQueues, 0) = QueuedCount(pre.localQueues, 0)
        /\ Cardinality(GoThieves(pre)) = 1 =>
             \A w \in GoThieves(pre) :
               LET d == Donor(pre.localQueues, w)
                   n == Len(pre.localQueues[d])
               IN  /\ Len(goroutineLane.localQueues[w]) = n \div 2
                   /\ Len(goroutineLane.localQueues[d]) = n - (n \div 2)

\* a tick in which exactly one worker stole, from a queue of three
C10_Witness ==
  /\ op = "tick"
  /\ LET pre == GoPre
     IN  /\ Cardinality(GoThieves(pre)) = 1
         /\ \E w \in GoThieves(pre) :
              /\ Len(pre.localQueues[Donor(pre.localQueues, w)]) = 3
              /\ Len(goroutineLane.localQueues[w]) = 1

\* ------------------------------------------------------------- scenarios
\* the workload is one batch of the Spawn button and nothing else
OneBatch == Len(heap) = SPAWN_COUNT /\ CPUTasks = {}

\* the last operation was the tick in which the lane's completedTasks
\* reached n
ReachedNow(l, n) ==
  op = "tick" /\ Lanes[l].completedTasks = n /\ prev[l].completedTasks < n

\* C11 (Scenario A): one spawnIOTasks(20) on freshly reset lanes puts 20
\* tasks in the process lane's shared queue and 5 in each of the 4 private
\* queues of the work-stealing lane; with both lanes ticked in lockstep, the
\* work-stealing lane has completedTasks = 20 already before the tick in
\* which the process lane reaches 20.
C11_WorkStealingFinishesFirst ==
  OneBatch =>
    /\ op = "spawn" =>
         /\ Len(processLane.globalQueue) = SPAWN_COUNT
         /\ \A i \in WorkerIds(NUM_WORKERS) :
              Len(goroutineLane.localQueues[i]) = SPAWN_COUNT \div NUM_WORKERS
    /\ processLane.completedTasks = SPAWN_COUNT =>
         goroutineLane.completedTasks = SPAWN_COUNT
    /\ ReachedNow("processLane", SPAWN_COUNT) =>
         prev.goroutineLane.completedTasks = SPAWN_COUNT

\* the tick in which the process lane reaches 20, the work-stealing lane
\* having reached it in an earlier one
C11_Witness ==
  /\ OneBatch
  /\ ReachedNow("processLane", SPAWN_COUNT)
  /\ prev.goroutineLane.completedTasks = SPAWN_COUNT


\* the last operation was a tick that started from an event-loop lane
\* holding nothing but one CPU task, in its queue
CoAloneCPU ==
  /\ op = "tick"
  /\ CoWas = Null
  /\ prev.coroutineLane.waitingIO = <<>>
  /\ Len(prev.coroutineLane.globalQueue) = 1
  /\ heap[Head(prev.coroutineLane.globalQueue)].type = "CPU"

\* C12 (Scenario B) as stated: one tick after a CPU task was injected into
\* an empty event-loop lane, the worker holds it RUNNING with progress 2.
C12_OneTickOneStep ==
  CoAloneCPU =>
    /\ CoIs.obj = Head(prev.coroutineLane.globalQueue)
    /\ CoIs.status = "RUNNING"
    /\ CoIs.progress = CPU_PROGRESS_SPEED

\* C12 as amended: the first tick after the injection only takes the task
\* off the queue (RUNNING, progress 0, queue empty); the tick after it gives
\* the first step, and the worker then holds the task RUNNING with progress 2.
C12_FirstTickAssigns ==
  /\ CoAloneCPU =>
       /\ CoIs.obj = Head(prev.coroutineLane.globalQueue)
       /\ CoIs.type = "CPU"
       /\ CoIs.status = "RUNNING"
       /\ CoIs.progress = 0
       /\ coroutineLane.globalQueue = <<>>
  /\ op = "tick" /\ CoWas.type = "CPU" /\ CoWas.progress = 0 =>
       /\ CoIs.obj = CoWas.obj
       /\ CoIs.status = "RUNNING"
       /\ CoIs.progress = CPU_PROGRESS_SPEED

\* the second tick after a lone CPU task was injected: the task was taken
\* off the queue by the tick before, and has now made its first step
C12_Witness ==
  /\ op = "tick"
  /\ Len(heap) = 1
  /\ CoWas.type = "CPU"
  /\ CoWas.progress = 0
  /\ CoIs.progress = CPU_PROGRESS_SPEED


\* the workload is one batch of the Spawn button followed by one poison task
PoisonedBatch == Len(heap) = SPAWN_COUNT + 1 /\ CPUTasks = {SPAWN_COUNT + 1}

\* the IO tasks the event-loop lane still holds
CoLiveIO == {o \in Live(coroutineLane) : heap[o].type = "IO"}

\* in the poisoned batch, the event-loop lane counts 21 only in states where
\* the CPU task has left the worker at progress 100; until then it counts at
\* most 20, and the 20th IO task is counted while the CPU task is unfinished
C13_CountsCPULast ==
  PoisonedBatch =>
    /\ coroutineLane.completedTasks <= SPAWN_COUNT + 1
    /\ SPAWN_COUNT + 1 \in Live(coroutineLane) =>
         coroutineLane.completedTasks <= SPAWN_COUNT
    /\ coroutineLane.completedTasks = SPAWN_COUNT + 1 => Live(coroutineLane) = {}
    /\ ReachedNow("coroutineLane", SPAWN_COUNT + 1) =>
         /\ CoWas.obj = SPAWN_COUNT + 1
         /\ CoWas.progress + CPU_PROGRESS_SPEED >= MAX_PROGRESS
         /\ prev.coroutineLane.completedTasks = SPAWN_COUNT
    /\ ReachedNow("coroutineLane", SPAWN_COUNT) =>
         /\ CoLiveIO = {}
         /\ CoIs.obj = SPAWN_COUNT + 1
         /\ CoIs.progress < MAX_PROGRESS

\* the poisoned batch is running
PoisonedRun == PoisonedBatch /\ isRunning

\* the event-loop lane has drained the poisoned batch
CoDrained == PoisonedBatch /\ CoLiveIO = {} /\ coroutineLane.completedTasks = SPAWN_COUNT + 1

Emptied(lane, n) ==
  /\ DOMAIN lane.workers = 0 .. (n - 1)
  /\ \A i \in DOMAIN lane.workers : lane.workers[i].currentTask = Null
  /\ Len(lane.globalQueue) = 0
  /\ Len(lane.waitingIO) = 0
  /\ lane.completedTasks = 0
  /\ lane.memoryUsage = 0

\* C14 (Scenario D): reset, from any reachable state and whether or not the
\* interval is active, leaves each lane with its workers (4, 4, 1, 4) idle,
\* the shared queue and the waiting pool empty, completedTasks = 0 and
\* memoryUsage = 0, and the work-stealing lane with exactly 4 empty private
\* queues.
C14_ResetEmptiesLanes ==
  op = "reset" =>
    /\ Emptied(processLane, 4)
    /\ Emptied(threadLane, 4)
    /\ Emptied(coroutineLane, 1)
    /\ Emptied(goroutineLane, 4)
    /\ DOMAIN goroutineLane.localQueues = 0 .. 3
    /\ \A i \in 0 .. 3 : Len(goroutineLane.localQueues[i]) = 0

\* a reset while the interval was active, with tasks in workers, in queues
\* and in the pool, and counters above zero
C14_Witness ==
  /\ op = "reset"
  /\ prev.isRunning
  /\ prev.processLane.memoryUsage > 0
  /\ prev.threadLane.workers[0].currentTask # Null
  /\ prev.coroutineLane.waitingIO # <<>>
  /\ prev.coroutineLane.globalQueue # <<>>
  /\ prev.goroutineLane.completedTasks > 0
  /\ prev.goroutineLane.localQueues[0] # <<>>


\* C15: any two tasks created since the last reset have distinct ids,
\* whatever the clock value of the creating calls; within a lane no two live
\* tasks share an id.
C15_DistinctIds ==
  /\ \A o1, o2 \in 1 .. Len(heap) : o1 # o2 => heap[o1].id # heap[o2].id
  /\ \A l \in LaneNames :
       \A o1, o2 \in Live(Lanes[l]) : o1 # o2 => heap[o1].id # heap[o2].id


\* the task objects waiting in the queues of a lane
Waiting(lane) ==
       {lane.globalQueue[k] : k \in 1 .. Len(lane.globalQueue)}
  \cup QueuedObjs(lane.localQueues)

\* C16: lanes are isolated: no lane's tick changes the task a queue of
\* another lane holds, so every task sitting in a queue of any lane has
\* status QUEUED.
C16_QueuedTasksAreQueued ==
  \A l \in LaneNames : \A o \in Waiting(Lanes[l]) : heap[o].status = "QUEUED"


\* C17 (Experiment 1): with one batch of 20 IO tasks on freshly reset lanes
\* and ticks in lockstep, the process lane reaches completedTasks = 20 at a
\* strictly later tick than the event-loop lane: in the tick in which the
\* event-loop lane reaches 20 the process lane is still short of it.
C17_ProcessFinishesAfterEventLoop ==
  OneBatch =>
    /\ ReachedNow("coroutineLane", SPAWN_COUNT) =>
         processLane.completedTasks < SPAWN_COUNT
    /\ ReachedNow("processLane", SPAWN_COUNT) =>
         prev.coroutineLane.completedTasks = SPAWN_COUNT


\* the workers of lane l that took a task off the queue in the last operation
Takers(l) ==
  {i \in DOMAIN Lanes[l].workers :
     /\ Lanes[l].workers[i].currentTask # Null
     /\ Lanes[l].workers[i].currentTask.obj # prev[l].workers[i].currentTask.obj}

\* the memory a lane adds per assignment
MemoryStep(l) ==
  IF l = "processLane" THEN PROCESS_MEMORY_STEP ELSE THREAD_MEMORY_STEP

\* C18: in the process and thread lanes memoryUsage stays within 0..100,
\* is lowered by no operation short of reset (not by completions either),
\* and every tick adds the lane's per-assignment constant (10, 3) once per
\* task dequeued into a worker slot in that tick, stopping at 100.
C18_MemoryGauge ==
  \A l \in {"processLane", "threadLane"} :
    LET grown == prev[l].memoryUsage + MemoryStep(l) * Cardinality(Takers(l))
    IN  /\ Lanes[l].memoryUsage \in 0 .. 100
        /\ op # "reset" => Lanes[l].memoryUsage >= prev[l].memoryUsage
        /\ op = "tick" =>
             /\ Lanes[l].memoryUsage = IF grown > 100 THEN 100 ELSE grown
             /\ Cardinality(Takers(l))
                  = Len(prev[l].globalQueue) - Len(Lanes[l].globalQueue)
        /\ op \in {"spawn", "inject", "start", "pause"} =>
             Lanes[l].memoryUsage = prev[l].memoryUsage

\* the tick in which the thread lane's gauge stops at 100 short of the sum,
\* while the process lane, already at 100, completes tasks and takes new ones
C18_Witness ==
  /\ op = "tick"
  /\ prev.threadLane.memoryUsage < 100
  /\ prev.threadLane.memoryUsage
       + THREAD_MEMORY_STEP * Cardinality(Takers("threadLane")) > 100
  /\ threadLane.memoryUsage = 100
  /\ prev.processLane.memoryUsage = 100
  /\ processLane.completedTasks > prev.processLane.completedTasks
  /\ Takers("processLane") # {}


\* the worker slots of the process and thread lanes that hold a task whose
\* wait has run out
SlotsAtZero ==
  {<<l, i>> \in {"processLane", "threadLane"} \X WorkerIds(NUM_WORKERS) :
     Lanes[l].workers[i].currentTask.ioWaitTime = 0}

\* C19: in the process and thread lanes an IO task is finalized in the tick
\* that takes its ioWaitTime to 0 (progress 100, DONE, slot vacated,
\* completedTasks incremented): no state at the end of a tick has a worker
\* slot holding a task whose ioWaitTime is 0, and a task whose ioWaitTime was
\* 1 when the tick started has left its (unblocked) worker when it ends.
C19_FinalizedAtZero ==
  op = "tick" =>
    /\ SlotsAtZero = {}
    /\ \A l \in {"processLane", "threadLane"} : \A i \in WorkerIds(NUM_WORKERS) :
         /\ prev[l].workers[i].currentTask.ioWaitTime = 1
         /\ ~Lanes[l].workers[i].isBlocked
         => Lanes[l].workers[i].currentTask.obj # prev[l].workers[i].currentTask.obj


\* the other workers whose queue, in the private queues qs, is longer than 2
Candidates(qs, w) == {i \in WorkerIds(NUM_WORKERS) \ {w} : Len(qs[i]) > 2}

\* the first k entries of a queue, and the rest of it
Oldest(q, k) == [j \in 1 .. k |-> q[j]]
Rest(q, k) == [j \in 1 .. (Len(q) - k) |-> q[j + k]]

\* C20: in the steal step of the work-stealing lane each worker idle with an
\* empty queue takes, at its turn, from one donor only, the lowest-indexed
\* other worker whose queue is then longer than 2: the first floor(n / 2)
\* tasks of the donor's n are appended to the thief's queue in their order,
\* the donor keeps the remaining ones in their order, and every other queue
\* is left alone; a worker that is busy or has a queue of its own steals
\* nothing.
C20_StealOldestFromFirstDonor ==
  op = "tick" =>
    LET pre   == GoPre
        turns == GoTurns(pre)
    IN  /\ goroutineLane.localQueues = turns[NUM_WORKERS]
        /\ \A w \in WorkerIds(NUM_WORKERS) :
             LET at    == turns[w]
                 after == turns[w + 1]
                 idle  == pre.workers[w].currentTask = Null /\ Len(at[w]) = 0
             IN  IF idle /\ Candidates(at, w) # {}
                   THEN \E d \in Candidates(at, w) :
                          /\ \A j \in Candidates(at, w) : d <= j
                          /\ after[w] = at[w] \o Oldest(at[d], Len(at[d]) \div 2)
                          /\ after[d] = Rest(at[d], Len(at[d]) \div 2)
                          /\ \A i \in WorkerIds(NUM_WORKERS) \ {w, d} :
                               after[i] = at[i]
                   ELSE \A i \in WorkerIds(NUM_WORKERS) : after[i] = at[i]

\* a tick in which a thief had two donors to choose from and took the older
\* of the first one's three tasks, and a second thief then stole from the
\* other donor
C20_Witness ==
  /\ op = "tick"
  /\ LET pre   == GoPre
         turns == GoTurns(pre)
     IN  \E w \in WorkerIds(NUM_WORKERS) :
           /\ pre.workers[w].currentTask = Null
           /\ Len(turns[w][w]) = 0
           /\ Cardinality(Candidates(turns[w], w)) = 2
           /\ \E d \in Candidates(turns[w], w) :
                /\ Len(turns[w][d]) = 3
                /\ turns[w + 1][w] = <<turns[w][d][1]>>
                /\ turns[w + 1][d] = <<turns[w][d][2], turns[w][d][3]>>
           /\ \E v \in WorkerIds(NUM_WORKERS) :
                v > w /\ Len(goroutineLane.localQueues[v]) > 0
                      /\ Len(pre.localQueues[v]) = 0


\* ------------------------------------------------------ order and fairness
\* the lanes that take their tasks from the shared queue
SharedQueueLanes == {"processLane", "threadLane", "coroutineLane"}

\* C21: in the process, thread and event-loop lanes tasks leave the shared
\* queue in enqueue order (the order of creation, which is the order of the
\* heap): the queue always holds the newest tasks, oldest first, so a task
\* enqueued before another has left the queue whenever the other has; each
\* tick takes a front part of the queue, for the workers that took a task
\* in it, and leaves the rest as it was.
C21_SharedQueueFIFO ==
  \A l \in SharedQueueLanes :
    LET q   == Lanes[l].globalQueue
        was == prev[l].globalQueue
    IN  /\ \A k \in 1 .. Len(q) : q[k] = Len(heap) - Len(q) + k
        /\ op = "tick" =>
             /\ Len(q) <= Len(was)
             /\ \A k \in 1 .. Len(q) : q[k] = was[Len(was) - Len(q) + k]
             /\ {Lanes[l].workers[i].currentTask.obj : i \in Takers(l)}
                  = {was[k] : k \in 1 .. (Len(was) - Len(q))}
        /\ op \in {"spawn", "inject"} =>
             /\ Len(q) > Len(was)
             /\ \A k \in 1 .. Len(was) : q[k] = was[k]

\* a tick of the thread lane in which worker 0 was blocked and skipped, and
\* workers 1 and 2 took the two waiting tasks in their order
C21_Witness ==
  /\ op = "tick"
  /\ 0 \in Blocked(threadLane)
  /\ Len(prev.threadLane.globalQueue) = 2
  /\ threadLane.workers[1].currentTask.obj = prev.threadLane.globalQueue[1]
  /\ threadLane.workers[2].currentTask.obj = prev.threadLane.globalQueue[2]
  /\ Len(processLane.globalQueue) = 0


\* the workers of the thread lane that held a task when the last operation
\* started
ThreadActiveWas ==
  {i \in WorkerIds(NUM_WORKERS) : prev.threadLane.workers[i].currentTask # Null}

\* worker i of the thread lane made its step in the last tick: the task it
\* held has advanced (or left), and an idle worker took the head of a
\* non-empty queue
ThreadStepped(i) ==
  LET was == prev.threadLane.workers[i].currentTask
      is  == threadLane.workers[i].currentTask
  IN  IF was # Null
        THEN \/ is.obj # was.obj
             \/ is.progress > was.progress
             \/ is.status = "WAITING_IO" /\ was.status = "RUNNING"
             \/ is.ioWaitTime = was.ioWaitTime - 1
        ELSE is = Null => threadLane.globalQueue = <<>>

\* C22: in the thread lane a worker has isBlocked set at the end of a tick
\* only if more than 2 workers held a task when the tick started (and the
\* roll of that tick succeeded); a tick that starts with 2 or fewer workers
\* holding a task leaves every worker unblocked and steps every worker.
C22_BlockedOnlyUnderContention ==
  op = "tick" =>
    /\ Blocked(threadLane) # {} =>
         /\ Cardinality(ThreadActiveWas) > 2
         /\ chosen # NoWorker
    /\ Cardinality(ThreadActiveWas) <= 2 =>
         /\ Blocked(threadLane) = {}
         /\ \A i \in WorkerIds(NUM_WORKERS) : ThreadStepped(i)

\* a tick that started with 2 or fewer busy workers, one of them carrying
\* the flag of an earlier tick, and left all workers unblocked and stepped
C22_Witness ==
  /\ op = "tick"
  /\ Cardinality(ThreadActiveWas) <= 2
  /\ \E i \in ThreadActiveWas : prev.threadLane.workers[i].isBlocked
  /\ Blocked(threadLane) = {}


\* lane l holds no task and has counted every task created since the last
\* reset
Drained(l) ==
  /\ \A i \in DOMAIN Lanes[l].workers : Lanes[l].workers[i].currentTask = Null
  /\ Lanes[l].globalQueue = <<>>
  /\ \A i \in DOMAIN Lanes[l].localQueues : Lanes[l].localQueues[i] = <<>>
  /\ Lanes[l].waitingIO = <<>>
  /\ Lanes[l].completedTasks = Len(heap)

AllDrained == \A l \in LaneNames : Drained(l)

\* C23: whatever workload was queued, once the interval runs every lane
\* eventually holds no task (queues and pool empty, workers idle) with
\* completedTasks equal to the number of tasks created since the last reset,
\* unless the interval is stopped first (pause or reset; tasks can be added
\* only then).  In the thread lane the contention roll succeeds at most
\* budget.blocks times in a run, so no worker stays blocked for ever.
C23_EveryLaneDrains == isRunning ~> (AllDrained \/ ~isRunning)

\* a run in which contention blocked a thread worker has drained: this tick
\* finished the last task of the thread lane and left every lane empty
C23_Witness ==
  /\ op = "tick"
  /\ isRunning
  /\ AllDrained
  /\ Len(heap) > 0
  /\ blocks > 0
  /\ prev.threadLane.completedTasks < Len(heap)

\* ------------------------------------------ thread lane and process lane
\* tasks taken off the shared queue of lane l since the last reset
Assigned(l) == Len(heap) - Len(Lanes[l].globalQueue)

\* the gauge after n assignments of the given footprint, capped at 100
Gauge(n, footprint) ==
  IF n * footprint > MAX_MEMORY THEN MAX_MEMORY ELSE n * footprint

\* C24: as long as no contention roll has succeeded since the last reset,
\* the thread lane and the process lane hold the same task in every worker
\* slot, the same shared queue and the same completedTasks after every
\* operation; only memoryUsage differs, 3 against 10 per assignment (each
\* capped at 100).
C24_ThreadEqualsProcess ==
  blocks = 0 =>
    /\ \A i \in WorkerIds(NUM_WORKERS) :
         threadLane.workers[i].currentTask = processLane.workers[i].currentTask
    /\ threadLane.globalQueue = processLane.globalQueue
    /\ threadLane.completedTasks = processLane.completedTasks
    /\ threadLane.waitingIO = processLane.waitingIO
    /\ threadLane.localQueues = processLane.localQueues
    /\ threadLane.memoryUsage = Gauge(Assigned("threadLane"), THREAD_MEMORY_STEP)
    /\ processLane.memoryUsage = Gauge(Assigned("processLane"), PROCESS_MEMORY_STEP)

\* a tick that started with more than 2 busy thread workers, in a run that
\* allows contention, failed its roll as every tick before it: a task was
\* completed in both lanes and the gauges differ
C24_Witness ==
  /\ op = "tick"
  /\ budget.blocks > 0
  /\ blocks = 0
  /\ Cardinality(ThreadActiveWas) > CONTENTION_MIN_ACTIVE
  /\ threadLane.completedTasks > prev.threadLane.completedTasks
  /\ threadLane.memoryUsage < processLane.memoryUsage


\* ------------------------------------------------ idle workers and queues
\* the workers of the work-stealing lane that hold no task and have nothing
\* in their private queue
IdleEmpty ==
  {w \in WorkerIds(NUM_WORKERS) :
     /\ goroutineLane.workers[w].currentTask = Null
     /\ goroutineLane.localQueues[w] = <<>>}

\* C25: at the end of every tick of the work-stealing lane, if some worker
\* is idle with an empty private queue then no private queue holds more than
\* 2 tasks.
C25_IdleOnlyBesideShortQueues ==
  (op = "tick" /\ IdleEmpty # {}) =>
    \A i \in WorkerIds(NUM_WORKERS) :
      Len(goroutineLane.localQueues[i]) <= STEAL_THRESHOLD

\* a tick in which a worker stole (its queue grew in the steal step) ends
\* with another worker idle and empty beside a queue of exactly 2 tasks
C25_Witness ==
  /\ op = "tick"
  /\ IdleEmpty # {}
  /\ \E w \in WorkerIds(NUM_WORKERS) :
       Len(goroutineLane.localQueues[w]) > Len(GoPre.localQueues[w])
  /\ \E i \in WorkerIds(NUM_WORKERS) :
       Len(goroutineLane.localQueues[i]) = STEAL_THRESHOLD

====
